---- MODULE Spec2Model ----
(***************************************************************************)
(* Model of logging-rs 1.1.0 (src/src/lib.rs): the template formatter      *)
(* Formatter::format and the multi-sink dispatch Logger::log, with the     *)
(* level macros debug!, info!, warn!, error!, fatal!, log!.                *)
(*                                                                         *)
(* A string is a sequence of atoms.  The atoms "{" and "}" are the brace   *)
(* characters; every other atom is a run of characters without braces (a   *)
(* word, a key, an escape sequence, a separator).  The placeholder token   *)
(* of key k is the five atoms  { { k } } , so str::replace on tokens is    *)
(* modelled position by position, as the code computes it.  No atom is the *)
(* concatenation of other atoms, and keys contain no brace.                *)
(***************************************************************************)
EXTENDS Naturals, Sequences, FiniteSets

VARIABLES
    formatter,      \* Logger.formatter / the Formatter `self` of a format call
    writable_list,  \* Logger.writable_list
    stdout,         \* everything written to standard output so far
    stderr,         \* everything written to standard error so far
    files,          \* path -> content of the file at that path
    files0,         \* path -> content of the file before the first call
    fstate,         \* path -> "ok" | "noopen" | "nowrite" (what the OS answers)
    clock,          \* index into Instants of the last clock reading
    status,         \* "running" | "panicked" | "exited"
    raised,         \* the diagnostics raised through errors::Error::raise
    calls           \* the calls made so far, each with its inputs and outcome

vars == <<formatter, writable_list, stdout, stderr, files, files0, fstate,
          clock, status, raised, calls>>

----------------------------------------------------------------------------
(* Bounds *)

\* Logger calls per run of a logger with any sink list.
MaxCalls == 1

\* Logger calls per run of a logger with a single File sink.
MaxAppends == 2

\* Length of Logger.writable_list.
MaxSinks == 2

\* Length of the extra-argument list of a direct Formatter::format call.
MaxArgs == 2

----------------------------------------------------------------------------
(* Strings *)

\* "{{".to_owned() + key + "}}"
Tok(key) == <<"{", "{">> \o <<key>> \o <<"}", "}">>

NL == <<"\n">>

\* Whether pat occurs in s at position i.
MatchAt(s, pat, i) ==
    /\ i + Len(pat) - 1 <= Len(s)
    /\ \A j \in 1..Len(pat) : s[i + j - 1] = pat[j]

\* Whether the token "{{" + key + "}}" occurs in s at position i <= Len(s) - 4.
TokAt(s, key, i) ==
    /\ s[i + 2] = key
    /\ s[i] = "{"
    /\ s[i + 1] = "{"
    /\ s[i + 3] = "}"
    /\ s[i + 4] = "}"

\* s from position `from` on, with every token of `key` replaced by val: the
\* leftmost token first, then the text after it, never the inserted text.
RECURSIVE ReplaceFrom(_, _, _, _)
ReplaceFrom(s, key, val, from) ==
    IF \E i \in from..(Len(s) - 4) : TokAt(s, key, i)
    THEN LET i == CHOOSE i \in from..(Len(s) - 4) :
                     /\ TokAt(s, key, i)
                     /\ \A j \in from..(i - 1) : ~TokAt(s, key, j)
         IN  SubSeq(s, from, i - 1) \o val \o ReplaceFrom(s, key, val, i + 5)
    ELSE SubSeq(s, from, Len(s))

\* s.replace(("{{".to_owned() + key + "}}").as_str(), &val): every
\* non-overlapping match, found left to right, is replaced by val.
Replace(s, key, val) == ReplaceFrom(s, key, val, 1)

\* The atoms of s.
Atoms(s) == {s[i] : i \in 1..Len(s)}

\* The sequences over S of length at most n.
RECURSIVE SeqsUpTo(_, _)
SeqsUpTo(S, n) ==
    IF n = 0 THEN {<<>>}
    ELSE LET shorter == SeqsUpTo(S, n - 1)
         IN  shorter \cup {Append(q, x) : q \in shorter, x \in S}

\* Whether sub occurs in s.
Contains(s, sub) == \E i \in 1..(Len(s) + 1) : MatchAt(s, sub, i)

----------------------------------------------------------------------------
(* Level, Output *)

Levels == {"DEBUG", "INFO", "WARN", "ERROR", "FATAL", "MESSAGE"}

STDOUT == [kind |-> "STDOUT"]
STDERR == [kind |-> "STDERR"]
FILE(path) == [kind |-> "FILE", path |-> path]

Paths == {"out.log"}

Outputs == {STDOUT, STDERR} \cup {FILE(p) : p \in Paths}

----------------------------------------------------------------------------
(* Formatter *)

Formatter_new(color_format_string, format_string, timestamp_format) ==
    [color_format_string |-> color_format_string,
     format_string       |-> format_string,
     timestamp_format    |-> timestamp_format]

DefaultTimestampFormat ==
    <<"%Y", "-", "%m", "-", "%d", " ", "%H", ":", "%M", ":", "%S">>

Formatter_default ==
    Formatter_new(
        <<"[">> \o Tok("color.bright_blue") \o Tok("timestamp") \o Tok("end")
            \o <<"] [">> \o Tok("level") \o <<"] ">> \o Tok("path")
            \o <<": ">> \o Tok("message"),
        <<"[">> \o Tok("timestamp") \o <<"] [">> \o Tok("level") \o <<"] ">>
            \o Tok("path") \o <<": ">> \o Tok("message"),
        DefaultTimestampFormat)

\* The palette of Formatter::format, in the order of the code.
Colors == <<
    <<"end", <<"ESC[0m">> >>,
    <<"bold", <<"ESC[1m">> >>,
    <<"italic", <<"ESC[3m">> >>,
    <<"underline", <<"ESC[4m">> >>,
    <<"overline", <<"ESC[53m">> >>,
    <<"color.black", <<"ESC[30m">> >>,
    <<"color.red", <<"ESC[31m">> >>,
    <<"color.green", <<"ESC[32m">> >>,
    <<"color.yellow", <<"ESC[33m">> >>,
    <<"color.blue", <<"ESC[34m">> >>,
    <<"color.magenta", <<"ESC[35m">> >>,
    <<"color.cyan", <<"ESC[36m">> >>,
    <<"color.white", <<"ESC[37m">> >>,
    <<"color.bright_black", <<"ESC[90m">> >>,
    <<"color.bright_red", <<"ESC[91m">> >>,
    <<"color.bright_green", <<"ESC[92m">> >>,
    <<"color.bright_yellow", <<"ESC[93m">> >>,
    <<"color.bright_blue", <<"ESC[94m">> >>,
    <<"color.bright_magenta", <<"ESC[95m">> >>,
    <<"color.bright_cyan", <<"ESC[96m">> >>,
    <<"color.bright_white", <<"ESC[97m">> >>,
    <<"back.black", <<"ESC[40m">> >>,
    <<"back.red", <<"ESC[41m">> >>,
    <<"back.green", <<"ESC[42m">> >>,
    <<"back.yellow", <<"ESC[43m">> >>,
    <<"back.blue", <<"ESC[44m">> >>,
    <<"back.magenta", <<"ESC[45m">> >>,
    <<"back.cyan", <<"ESC[46m">> >>,
    <<"back.white", <<"ESC[47m">> >>,
    <<"back.bright_black", <<"ESC[100m">> >>,
    <<"back.bright_red", <<"ESC[101m">> >>,
    <<"back.bright_green", <<"ESC[102m">> >>,
    <<"back.bright_yellow", <<"ESC[103m">> >>,
    <<"back.bright_blue", <<"ESC[104m">> >>,
    <<"back.bright_magenta", <<"ESC[105m">> >>,
    <<"back.bright_cyan", <<"ESC[106m">> >>,
    <<"back.bright_white", <<"ESC[107m">> >> >>

\* level_string
LevelLabel(level) ==
    CASE level = "DEBUG"   -> "DEBUG"
      [] level = "INFO"    -> "INFO"
      [] level = "WARN"    -> "WARNING"
      [] level = "ERROR"   -> "ERROR"
      [] level = "FATAL"   -> "FATAL"
      [] level = "MESSAGE" -> "MESSAGE"

level_string(level) == <<"level", <<LevelLabel(level)>> >>

\* Mutant: the console label is the bare label.
colored_level_string_bare(level) == <<"level", <<LevelLabel(level)>> >>

\* colored_level_string
colored_level_string(level) ==
    <<"level",
      CASE level = "DEBUG"   -> <<"DEBUG">>
        [] level = "INFO"    -> Tok("color.blue") \o <<"INFO">> \o Tok("end")
        [] level = "WARN"    -> Tok("color.yellow") \o <<"WARNING">> \o Tok("end")
        [] level = "ERROR"   -> Tok("color.red") \o <<"ERROR">> \o Tok("end")
        [] level = "FATAL"   -> Tok("color.red") \o <<"FATAL">> \o Tok("end")
        [] level = "MESSAGE" -> Tok("color.blue") \o <<"MESSAGE">> \o Tok("end") >>

\* The clock readings chrono::Local::now() can return, in time order.
Instants == <<
    [Y |-> "2023", m |-> "12", d |-> "31", H |-> "23", M |-> "59", S |-> "59"],
    [Y |-> "2024", m |-> "01", d |-> "01", H |-> "00", M |-> "00", S |-> "00"] >>

\* The strftime items of the model that start with '%'; "%Q" and a lone "%"
\* are no chrono specifiers.
PercentItems == {"%Y", "%m", "%d", "%H", "%M", "%S", "%Q", "%"}

StrftimeItem(item, now) ==
    CASE item = "%Y" -> now.Y
      [] item = "%m" -> now.m
      [] item = "%d" -> now.d
      [] item = "%H" -> now.H
      [] item = "%M" -> now.M
      [] item = "%S" -> now.S
      [] OTHER -> item

ValidPattern(pattern) ==
    \A i \in 1..Len(pattern) :
        pattern[i] \in PercentItems => pattern[i] \in {"%Y", "%m", "%d", "%H", "%M", "%S"}

\* chrono::Local::now().format(&self.timestamp_format).to_string(): the
\* Display of chrono's DelayedFormat returns an error on a pattern with an
\* unknown specifier, and to_string() panics on a Display error.
Timestamp(pattern, now) ==
    IF ValidPattern(pattern)
    THEN [panic |-> FALSE,
          text  |-> [i \in 1..Len(pattern) |-> StrftimeItem(pattern[i], now)]]
    ELSE [panic |-> TRUE, text |-> <<>>]

\* Mutant: the extra arguments are applied after the level and the palette.
Arguments_extraslast(output, level, message, timestamp, extra_arguments) ==
    << <<"message", message>>, <<"timestamp", timestamp>> >>
        \o (IF output.kind \in {"STDOUT", "STDERR"}
            THEN <<colored_level_string(level)>>
            ELSE <<level_string(level)>>)
        \o Colors
        \o extra_arguments

\* Mutant: the message entry is applied after the extra arguments.
Arguments_messageafter(output, level, message, timestamp, extra_arguments) ==
    << <<"timestamp", timestamp>> >>
        \o extra_arguments
        \o << <<"message", message>> >>
        \o (IF output.kind \in {"STDOUT", "STDERR"}
            THEN <<colored_level_string(level)>>
            ELSE <<level_string(level)>>)
        \o Colors

\* Mutant: the message entry is applied last, after the palette.
Arguments_messagelast(output, level, message, timestamp, extra_arguments) ==
    << <<"timestamp", timestamp>> >>
        \o extra_arguments
        \o (IF output.kind \in {"STDOUT", "STDERR"}
            THEN <<colored_level_string(level)>>
            ELSE <<level_string(level)>>)
        \o Colors
        \o << <<"message", message>> >>

\* Mutant: the palette is appended for the console sinks only.
Arguments_consolepalette(output, level, message, timestamp, extra_arguments) ==
    << <<"message", message>>, <<"timestamp", timestamp>> >>
        \o extra_arguments
        \o (IF output.kind \in {"STDOUT", "STDERR"}
            THEN <<colored_level_string(level)>> \o Colors
            ELSE <<level_string(level)>>)

\* Mutant: the extra arguments are left out of the table.
Arguments_noextra(output, level, message, timestamp, extra_arguments) ==
    << <<"message", message>>, <<"timestamp", timestamp>> >>
        \o (IF output.kind \in {"STDOUT", "STDERR"}
            THEN <<colored_level_string(level)>>
            ELSE <<level_string(level)>>)
        \o Colors

\* Mutant: the table carries an entry for the key path.
Arguments_withpath(output, level, message, timestamp, extra_arguments) ==
    << <<"message", message>>, <<"timestamp", timestamp>> >>
        \o extra_arguments
        \o (IF output.kind \in {"STDOUT", "STDERR"}
            THEN <<colored_level_string(level)>>
            ELSE <<level_string(level)>>)
        \o Colors
        \o << <<"path", <<"lib.rs">> >> >>

\* The substitution table of Formatter::format.
Arguments(output, level, message, timestamp, extra_arguments) ==
    << <<"message", message>>, <<"timestamp", timestamp>> >>
        \o extra_arguments
        \o (IF output.kind \in {"STDOUT", "STDERR"}
            THEN <<colored_level_string(level)>>
            ELSE <<level_string(level)>>)
        \o Colors

\* The template Formatter::format starts from.
Template(self, output) ==
    IF output.kind \in {"STDOUT", "STDERR"}
    THEN self.color_format_string
    ELSE self.format_string

\* for (key, value) in arguments { result = result.replace("{{key}}", value) }
\* `atoms` is Atoms(res): a key that is no atom of res has no token in res,
\* and replace returns res unchanged.
RECURSIVE SubstituteFrom(_, _, _, _)
SubstituteFrom(res, atoms, arguments, i) ==
    IF i > Len(arguments) THEN res
    ELSE IF arguments[i][1] \in atoms
         THEN LET r == Replace(res, arguments[i][1], arguments[i][2])
              IN  SubstituteFrom(r, Atoms(r), arguments, i + 1)
         ELSE SubstituteFrom(res, atoms, arguments, i + 1)

Substitute(template, arguments) ==
    SubstituteFrom(template, Atoms(template), arguments, 1)

\* Formatter::format with the clock reading `now`.
Format(self, output, level, message, extra_arguments, now) ==
    LET ts == Timestamp(self.timestamp_format, now) IN
    IF ts.panic
    THEN [panic |-> TRUE, text |-> <<>>]
    ELSE [panic |-> FALSE,
          text  |-> Substitute(Template(self, output),
                               Arguments(output, level, message, ts.text,
                                         extra_arguments))]

----------------------------------------------------------------------------
(* Inputs *)

\* A formatter whose templates hold an unknown key, an extra-argument key
\* and, in the plain template, palette tokens.
Formatter_custom ==
    Formatter_new(
        Tok("unknown_key") \o <<" ">> \o Tok("level") \o <<" ">>
            \o Tok("message") \o <<" ">> \o Tok("details"),
        Tok("color.red") \o <<"<">> \o Tok("level") \o <<">">> \o Tok("end")
            \o Tok("message") \o Tok("unknown_key") \o Tok("path"),
        <<"at ", "%H", "h">>)

\* The default templates with a timestamp pattern chrono rejects.
Formatter_badtime ==
    Formatter_new(Formatter_default.color_format_string,
                  Formatter_default.format_string,
                  <<"%Y", "%Q">>)

\* The default templates with a timestamp pattern whose literal text holds
\* the token of message; strftime copies the braces as they are.
Formatter_timetoken ==
    Formatter_new(Formatter_default.color_format_string,
                  Formatter_default.format_string,
                  <<"%H", " ">> \o Tok("message"))

Formatters ==
    {Formatter_default, Formatter_custom, Formatter_badtime, Formatter_timetoken}

Messages == {
    <<"Test">>,
    <<"more ">> \o Tok("details"),
    Tok("message"),
    Tok("timestamp") \o <<"!">>,
    <<"lvl ">> \o Tok("level"),
    Tok("end") \o Tok("unknown_key"),
    <<"{">> \o Tok("more") \o <<"}">> }

ArgPairs == {
    <<"details", <<"stuff">> >>,
    <<"details", Tok("message")>>,
    <<"more", Tok("details")>>,
    <<"message", <<"fake">> >>,
    <<"level", <<"spoof">> >>,
    <<"end", <<"plain">> >> }

\* The extra-argument lists of direct Formatter::format calls.
ArgLists == SeqsUpTo(ArgPairs, MaxArgs)

----------------------------------------------------------------------------
(* Formatter::format as an operation *)

\* The last call made.
Last == calls[Len(calls)]

InitFormat ==
    /\ formatter \in Formatters
    /\ writable_list = <<STDOUT>>
    /\ stdout = <<>>
    /\ stderr = <<>>
    /\ files = [p \in Paths |-> <<>>]
    /\ files0 = files
    /\ fstate = [p \in Paths |-> "ok"]
    /\ clock = 1
    /\ status = "running"
    /\ raised = <<>>
    /\ calls = <<>>

\* The effect of formatter.format(output, level, message, extra_arguments)
\* reading the clock at instant t.  A panic unwinds the caller.
DoFormat(output, level, message, extra_arguments, t) ==
    \E res \in {Format(formatter, output, level, message, extra_arguments,
                      Instants[t])} :
        /\ t >= clock
        /\ clock' = t
        /\ calls' = Append(calls,
              [op |-> "format", output |-> output, level |-> level,
               message |-> message, arguments |-> extra_arguments, t |-> t,
               result |-> res])
        /\ status' = IF res.panic THEN "panicked" ELSE "running"
        /\ UNCHANGED <<formatter, writable_list, stdout, stderr, files,
                       files0, fstate, raised>>

\* A direct call of Formatter::format, on inputs drawn from the bounded sets.
FormatCall ==
    /\ status = "running"
    /\ calls = <<>>
    /\ \E output \in Outputs, level \in Levels, message \in Messages,
          extra_arguments \in ArgLists, t \in DOMAIN Instants :
           DoFormat(output, level, message, extra_arguments, t)

NextFormat == FormatCall

SpecFormat == InitFormat /\ [][NextFormat]_vars

----------------------------------------------------------------------------
(* errors::Error *)

\* errors::Error::new(name, description, exit_code).raise(details): the
\* diagnostic is surfaced; the process terminates when `exits`.
Raise(acc, name, description, exit_code, details, exits) ==
    [acc EXCEPT !.raised = Append(@, [name |-> name,
                                      description |-> description,
                                      exit_code |-> exit_code,
                                      details |-> details]),
                !.status = IF exits THEN "exited" ELSE @]

----------------------------------------------------------------------------
(* Logger *)

\* Mutant: the file write ends the text with a newline, as println! does.
Dispatch_newline(acc, writable, formatted, exits) ==
    CASE writable.kind = "STDOUT" ->
            [acc EXCEPT !.stdout = @ \o formatted \o NL,
                        !.writes = Append(@, [output |-> writable,
                                              text |-> formatted \o NL,
                                              ok |-> TRUE])]
      [] writable.kind = "STDERR" ->
            [acc EXCEPT !.stderr = @ \o formatted \o NL,
                        !.writes = Append(@, [output |-> writable,
                                              text |-> formatted \o NL,
                                              ok |-> TRUE])]
      [] writable.kind = "FILE" ->
            IF fstate[writable.path] = "noopen"
            THEN [acc EXCEPT !.status = "panicked"]
            ELSE IF fstate[writable.path] = "nowrite"
            THEN Raise([acc EXCEPT !.writes = Append(@, [output |-> writable,
                                                         text |-> formatted,
                                                         ok |-> FALSE])],
                       "Writing error", "The file could not be edited", 2,
                       [path |-> writable.path, text |-> formatted], exits)
            ELSE [acc EXCEPT !.files[writable.path] = @ \o formatted \o NL,
                             !.writes = Append(@, [output |-> writable,
                                                   text |-> formatted,
                                                   ok |-> TRUE])]

\* The match on `writable` in Logger::log: one sink's write of `formatted`.
Dispatch(acc, writable, formatted, exits) ==
    CASE writable.kind = "STDOUT" ->
            \* println!("{}", formatted)
            [acc EXCEPT !.stdout = @ \o formatted \o NL,
                        !.writes = Append(@, [output |-> writable,
                                              text |-> formatted \o NL,
                                              ok |-> TRUE])]
      [] writable.kind = "STDERR" ->
            \* eprintln!("{}", formatted)
            [acc EXCEPT !.stderr = @ \o formatted \o NL,
                        !.writes = Append(@, [output |-> writable,
                                              text |-> formatted \o NL,
                                              ok |-> TRUE])]
      [] writable.kind = "FILE" ->
            IF fstate[writable.path] = "noopen"
            THEN \* file is Err: file.as_ref().unwrap() panics, before the test
                 \* `if let Err(error) = file` that raises the "File error"
                 [acc EXCEPT !.status = "panicked"]
            ELSE IF fstate[writable.path] = "nowrite"
            THEN \* write is Err: the "Writing error" is raised
                 Raise([acc EXCEPT !.writes = Append(@, [output |-> writable,
                                                         text |-> formatted,
                                                         ok |-> FALSE])],
                       "Writing error", "The file could not be edited", 2,
                       [path |-> writable.path, text |-> formatted], exits)
            ELSE \* opened with create, append, write: write!(file, "{}", formatted)
                 [acc EXCEPT !.files[writable.path] = @ \o formatted,
                             !.writes = Append(@, [output |-> writable,
                                                   text |-> formatted,
                                                   ok |-> TRUE])]

\* The calls a run makes on its logger: a logger with a single File sink
\* is followed for MaxAppends calls, any other for MaxCalls.
Budget ==
    IF Len(writable_list) = 1 /\ writable_list[1].kind = "FILE"
    THEN MaxAppends
    ELSE MaxCalls

\* for writable in self.writable_list.clone() { ... } from the i-th sink on;
\* ts[i] is the clock reading of the i-th sink's format call.
RECURSIVE LogLoop(_, _, _, _, _, _, _)
\* Mutant: a call below the INFO threshold is not dispatched.
LogIteration_threshold(acc, i, formatted, message, level, arguments, ts, exits) ==
    IF formatted.panic
    THEN [acc EXCEPT !.status = "panicked"]
    ELSE IF level = "DEBUG"
    THEN LogLoop(acc, i + 1, message, level, arguments, ts, exits)
    ELSE LogLoop(Dispatch(acc, writable_list[i], formatted.text, exits),
                 i + 1, message, level, arguments, ts, exits)

LogIteration(acc, i, formatted, message, level, arguments, ts, exits) ==
    IF formatted.panic
    THEN [acc EXCEPT !.status = "panicked"]
    ELSE LogLoop(Dispatch(acc, writable_list[i], formatted.text, exits),
                 i + 1, message, level, arguments, ts, exits)

LogLoop(acc, i, message, level, arguments, ts, exits) ==
    IF i > Len(writable_list) \/ acc.status # "running" THEN acc
    ELSE LogIteration(acc, i,
                      Format(formatter, writable_list[i], level, message,
                             arguments, Instants[ts[i]]),
                      message, level, arguments, ts, exits)

\* The clock readings of one log call: one per sink, none before the last
\* reading, none before an earlier one.
Readings ==
    {ts \in SeqsUpTo(DOMAIN Instants, Len(writable_list)) :
        /\ Len(ts) = Len(writable_list)
        /\ \A i \in 1..Len(ts) : ts[i] >= clock
        /\ \A i \in 1..(Len(ts) - 1) : ts[i] <= ts[i + 1]}

\* Mutant: the path entry is put before the caller's entries.
LogArguments_first(arguments, path) == << <<"path", <<path>> >> >> \o arguments

\* arguments.push(("path", path.to_string()))
LogArguments(arguments, path) == Append(arguments, <<"path", <<path>> >>)

\* Logger::log(message, level, path, arguments)
Log(message, level, path, arguments) ==
    /\ status = "running"
    /\ Len(calls) < Budget
    /\ \E ts \in Readings, exits \in BOOLEAN :
        \E acc \in {LogLoop([stdout |-> stdout, stderr |-> stderr,
                             files |-> files, writes |-> <<>>,
                             raised |-> raised, status |-> "running"],
                            1, message, level,
                            LogArguments(arguments, path),
                            ts, exits)} :
            /\ stdout' = acc.stdout
            /\ stderr' = acc.stderr
            /\ files' = acc.files
            /\ raised' = acc.raised
            /\ status' = acc.status
            /\ clock' = IF ts = <<>> THEN clock ELSE ts[Len(ts)]
            /\ calls' = Append(calls,
                  [op |-> "log", message |-> message, level |-> level,
                   path |-> path, arguments |-> arguments, ts |-> ts,
                   writes |-> acc.writes, outcome |-> acc.status])
            /\ UNCHANGED <<formatter, writable_list, files0, fstate>>

\* The (message, named arguments) of the macro calls: the plain arm and the
\* documented arm with a named argument.
LogInputs == {
    << <<"Test">>, <<>> >>,
    << <<"more ">> \o Tok("details"), << <<"details", <<"stuff">> >> >> >> }

\* std::panic::Location::caller().file() at the call sites.
CallerFiles == {"main.rs"}

\* A macro of level `level`: both arms end in
\* $logger.log($message, Level, Location::caller().file(), arguments).
Macro(level) ==
    \E input \in LogInputs, path \in CallerFiles :
        Log(input[1], level, path, input[2])

debug == Macro("DEBUG")
info == Macro("INFO")
warn == Macro("WARN")
error == Macro("ERROR")
fatal == Macro("FATAL")
log == Macro("MESSAGE")

\* A direct call logger.log(message, level, path, arguments): the documented
\* one, and one whose arguments name the key path themselves.
LogCall ==
    \E arguments \in {<<>>, << <<"path", <<"spoof">> >> >>} :
        Log(<<"Some message">>, "DEBUG", "lib.rs", arguments)

\* Logger::new(formatter, writable_list), and the files as the OS holds them.
Init ==
    /\ formatter \in {Formatter_default, Formatter_badtime}
    /\ writable_list \in SeqsUpTo(Outputs, MaxSinks)
    /\ stdout = <<>>
    /\ stderr = <<>>
    /\ files \in [Paths -> {<<>>, <<"old", "\n">>}]
    /\ files0 = files
    /\ fstate \in [Paths -> {"ok", "noopen", "nowrite"}]
    /\ \A p \in Paths :
          \* a file no sink names plays no part; prior content is followed
          \* for the loggers whose only sink is that file
          /\ (\A i \in 1..Len(writable_list) : writable_list[i] # FILE(p))
                => fstate[p] = "ok"
          /\ writable_list # <<FILE(p)>> => files[p] = <<>>
    /\ clock = 1
    /\ status = "running"
    /\ raised = <<>>
    /\ calls = <<>>

Next == debug \/ info \/ warn \/ error \/ fatal \/ log \/ LogCall

Spec == Init /\ [][Next]_vars

----------------------------------------------------------------------------
(* Vocabulary of the properties *)

\* Whether the token of key occurs in s.
HasTok(s, key) == \E i \in 1..(Len(s) - 4) : TokAt(s, key, i)

\* The keys of the tokens that occur in s.
TokenKeys(s) ==
    {s[i + 2] : i \in {j \in 1..(Len(s) - 4) :
                          /\ s[j] = "{" /\ s[j + 1] = "{"
                          /\ s[j + 3] = "}" /\ s[j + 4] = "}"}}

\* Text without a brace.
Plain(s) == \A i \in 1..Len(s) : s[i] \notin {"{", "}"}

PaletteKeys == {Colors[i][1] : i \in 1..Len(Colors)}

ReservedKeys == {"message", "timestamp", "level", "path"} \cup PaletteKeys

ArgKeys(arguments) == {arguments[i][1] : i \in 1..Len(arguments)}

\* The pairs <<left, right>> of brace-free atoms between which a token of
\* key stands in s.
Around(s, key) ==
    {<<s[i - 1], s[i + 5]>> : i \in {j \in 2..(Len(s) - 5) :
        /\ TokAt(s, key, j)
        /\ s[j - 1] \notin {"{", "}"}
        /\ s[j + 5] \notin {"{", "}"}}}

\* The timestamp text of format call c.
TimestampText(c) == Timestamp(formatter.timestamp_format, Instants[c.t]).text

\* The completed direct calls of Formatter::format, and the logger calls.
FormatCalls == {i \in 1..Len(calls) : calls[i].op = "format" /\ ~calls[i].result.panic}

LogCalls == {i \in 1..Len(calls) : calls[i].op = "log"}

Console(output) == output.kind \in {"STDOUT", "STDERR"}

\* Every File sink of the logger can be opened and written.
AllWritable ==
    \A i \in 1..Len(writable_list) :
        writable_list[i].kind = "FILE" => fstate[writable_list[i].path] = "ok"

----------------------------------------------------------------------------
(* C1 *)

\* What claim C1 expects the i-th write of logger call c to carry.
C1_Payload(c, i) ==
    Format(formatter, writable_list[i], c.level, c.message,
           Append(c.arguments, <<"path", <<c.path>> >>),
           Instants[c.ts[i]]).text
        \o (IF Console(writable_list[i]) THEN NL ELSE <<>>)

\* C1: for every level and every logger whose sinks are all writable (and
\* whose timestamp pattern chrono accepts), one call of Logger::log performs
\* exactly n writes, the i-th to the i-th sink of writable_list and carrying
\* Formatter::format of that sink, the level, the message and the extra
\* arguments followed by the path entry; no level skips a write.
C1_EveryLevelWritesEverySink ==
    (AllWritable /\ ValidPattern(formatter.timestamp_format)) =>
        \A k \in LogCalls :
            /\ calls[k].level \in Levels
            /\ Len(calls[k].writes) = Len(writable_list)
            /\ \A i \in 1..Len(writable_list) :
                  /\ calls[k].writes[i].output = writable_list[i]
                  /\ calls[k].writes[i].ok
                  /\ calls[k].writes[i].text = C1_Payload(calls[k], i)

\* A DEBUG call on a logger with two different writable sinks, one a file,
\* has written to both.
C1_Witness ==
    /\ calls # <<>>
    /\ Last.op = "log"
    /\ Last.level = "DEBUG"
    /\ AllWritable
    /\ Len(writable_list) = 2
    /\ writable_list[1] = FILE("out.log")
    /\ writable_list[2] = STDERR
    /\ Len(Last.writes) = 2
    /\ files["out.log"] # <<>>
    /\ stderr # <<>>

----------------------------------------------------------------------------
(* C2 *)

\* The extra arguments of format call c that claim C2 is about: the first
\* entry of its key, the key not reserved, the message holding the token of
\* that key and of no other key, and the value holding no token of a key
\* that a later entry of the table carries.
C2_Cases(c) ==
    {i \in 1..Len(c.arguments) :
        /\ c.arguments[i][1] \notin ReservedKeys
        /\ \A j \in 1..(i - 1) : c.arguments[j][1] # c.arguments[i][1]
        /\ TokenKeys(c.message) = {c.arguments[i][1]}
        /\ \A k \in TokenKeys(c.arguments[i][2]) :
              /\ k \notin {"level"} \cup PaletteKeys
              /\ \A j \in (i + 1)..Len(c.arguments) : c.arguments[j][1] # k}

\* C2: when the message holds the placeholder of a key k that is not
\* reserved and the caller passes the extra argument (k, v), the output of
\* Formatter::format holds the message with v standing in place of the
\* placeholder, for every sink kind and every level.
C2_ExtraArgumentFillsMessagePlaceholder ==
    \A n \in FormatCalls :
        \A i \in C2_Cases(calls[n]) :
            Contains(calls[n].result.text,
                     Replace(calls[n].message, calls[n].arguments[i][1],
                             calls[n].arguments[i][2]))

\* The documented call: message "more {{details}}" with ("details", "stuff")
\* rendered for a file at level FATAL gives "... more stuff".
C2_Witness ==
    /\ calls # <<>>
    /\ Last.op = "format"
    /\ ~Last.result.panic
    /\ Last.output = FILE("out.log")
    /\ Last.level = "FATAL"
    /\ Last.message = <<"more ">> \o Tok("details")
    /\ Last.arguments = << <<"details", <<"stuff">> >> >>
    /\ C2_Cases(Last) = {1}
    /\ Contains(Last.result.text, <<"more ", "stuff">>)

----------------------------------------------------------------------------
(* C3 *)

\* The rendering of the level that claim C3 states, by sink kind.
C3_Rendered(output, level) ==
    IF Console(output)
    THEN CASE level = "DEBUG"   -> <<"DEBUG">>
           [] level = "INFO"    -> <<"ESC[34m", "INFO", "ESC[0m">>
           [] level = "MESSAGE" -> <<"ESC[34m", "MESSAGE", "ESC[0m">>
           [] level = "WARN"    -> <<"ESC[33m", "WARNING", "ESC[0m">>
           [] level = "ERROR"   -> <<"ESC[31m", "ERROR", "ESC[0m">>
           [] level = "FATAL"   -> <<"ESC[31m", "FATAL", "ESC[0m">>
    ELSE CASE level = "DEBUG"   -> <<"DEBUG">>
           [] level = "INFO"    -> <<"INFO">>
           [] level = "MESSAGE" -> <<"MESSAGE">>
           [] level = "WARN"    -> <<"WARNING">>
           [] level = "ERROR"   -> <<"ERROR">>
           [] level = "FATAL"   -> <<"FATAL">>

\* C3: with empty extra arguments, wherever the template holds {{level}}
\* between two pieces of literal text, the output holds between those same
\* pieces, for a console sink, the label wrapped in its colour code and the
\* reset code (INFO and MESSAGE blue, WARNING yellow, ERROR and FATAL red,
\* DEBUG bare) and, for a file sink, the bare label with no escape code
\* around it.
C3_LevelRendersBySinkKind ==
    \A n \in FormatCalls :
        calls[n].arguments = <<>> =>
            \A lr \in Around(Template(formatter, calls[n].output), "level") :
                Contains(calls[n].result.text,
                         <<lr[1]>>
                            \o C3_Rendered(calls[n].output, calls[n].level)
                            \o <<lr[2]>>)

\* A WARN rendered for stderr with the default templates and no extra
\* arguments shows "] [" ESC[33m WARNING ESC[0m "] ".
C3_Witness ==
    /\ calls # <<>>
    /\ Last.op = "format"
    /\ ~Last.result.panic
    /\ formatter = Formatter_default
    /\ Last.output = STDERR
    /\ Last.level = "WARN"
    /\ Last.arguments = <<>>
    /\ Around(Template(formatter, Last.output), "level") = {<<"] [", "] ">>}
    /\ Contains(Last.result.text,
                <<"] [", "ESC[33m", "WARNING", "ESC[0m", "] ">>)

----------------------------------------------------------------------------
(* C4 *)

\* The keys of the substitution table of format call c, as claim C4 reads
\* them: message, timestamp, level, the palette and the extra arguments.
C4_TableKeys(c) ==
    {"message", "timestamp", "level"} \cup PaletteKeys \cup ArgKeys(c.arguments)

\* The values format call c inserts hold no brace.
C4_PlainValues(c) ==
    /\ Plain(c.message)
    /\ Plain(TimestampText(c))
    /\ \A i \in 1..Len(c.arguments) : Plain(c.arguments[i][2])

\* C4: every placeholder of the selected template whose key has no entry in
\* the substitution table stands verbatim in the output, between the same
\* neighbours as in the template; and when the inserted values hold no
\* placeholder themselves, the placeholders of the output are exactly those
\* of the template without an entry, every other one being replaced.
C4_UnknownPlaceholdersStayVerbatim ==
    \A n \in FormatCalls :
        LET c == calls[n]
            T == Template(formatter, c.output)
            out == c.result.text
        IN  /\ \A k \in TokenKeys(T) \ C4_TableKeys(c) :
                  /\ HasTok(out, k)
                  /\ \A lr \in Around(T, k) :
                        Contains(out, <<lr[1]>> \o Tok(k) \o <<lr[2]>>)
            /\ C4_PlainValues(c) =>
                  TokenKeys(out) = TokenKeys(T) \ C4_TableKeys(c)

\* The call of the repository's test: default formatter, stdout, DEBUG,
\* "Test" and no extra argument leaves "] {{path}}: Test".
C4_Witness ==
    /\ calls # <<>>
    /\ Last.op = "format"
    /\ ~Last.result.panic
    /\ formatter = Formatter_default
    /\ Last.output = STDOUT
    /\ Last.level = "DEBUG"
    /\ Last.message = <<"Test">>
    /\ Last.arguments = <<>>
    /\ TokenKeys(Last.result.text) = {"path"}
    /\ Contains(Last.result.text,
                <<"] ">> \o Tok("path") \o <<": ", "Test">>)

----------------------------------------------------------------------------
(* C5 *)

\* The text logger call c renders for the sink `output` at its i-th reading.
C5_Rendered(c, output, i) ==
    Format(formatter, output, c.level, c.message,
           Append(c.arguments, <<"path", <<c.path>> >>),
           Instants[c.ts[i]]).text

\* The rendered texts of the first n calls for the logger's only sink, in
\* call order, each followed by `sep`.
RECURSIVE C5_Concat(_, _)
C5_Concat(n, sep) ==
    IF n = 0 THEN <<>>
    ELSE C5_Concat(n - 1, sep)
            \o C5_Rendered(calls[n], writable_list[1], 1) \o sep

\* Every call made so far returned normally with its write done.
C5_AllSucceeded ==
    \A n \in 1..Len(calls) :
        /\ calls[n].op = "log"
        /\ calls[n].outcome = "running"
        /\ Len(calls[n].writes) = 1
        /\ calls[n].writes[1].ok

\* C5: for a logger with a single File sink, after n successful log calls
\* the file holds its prior content followed by the n rendered texts in
\* call order with nothing between or after them, the prior content being
\* neither truncated nor overwritten; for a logger with a single console
\* sink the stream holds each rendered text followed by one newline.
C5_FileAppendsWithoutSeparator ==
    (Len(writable_list) = 1 /\ C5_AllSucceeded) =>
        /\ writable_list[1].kind = "FILE" =>
              files[writable_list[1].path]
                 = files0[writable_list[1].path] \o C5_Concat(Len(calls), <<>>)
        /\ writable_list[1] = STDOUT => stdout = C5_Concat(Len(calls), NL)
        /\ writable_list[1] = STDERR => stderr = C5_Concat(Len(calls), NL)

\* Two successful calls with different messages on a logger whose only sink
\* is a file that already held a line: the file holds the old line and both
\* rendered texts, and no newline was added.
C5_Witness ==
    /\ writable_list = <<FILE("out.log")>>
    /\ Len(calls) = 2
    /\ C5_AllSucceeded
    /\ calls[1].message # calls[2].message
    /\ files0["out.log"] = <<"old", "\n">>
    /\ Len(files["out.log"])
          = 2 + Len(C5_Rendered(calls[1], writable_list[1], 1))
              + Len(C5_Rendered(calls[2], writable_list[1], 1))
    /\ files["out.log"][Len(files["out.log"])] # "\n"

----------------------------------------------------------------------------
(* C6 *)

\* The brace-free atoms that stand right before, and right after, a token
\* of key in s.
LeftOf(s, key) ==
    {s[i - 1] : i \in {j \in 2..(Len(s) - 4) :
        TokAt(s, key, j) /\ s[j - 1] \notin {"{", "}"}}}

RightOf(s, key) ==
    {s[i + 5] : i \in {j \in 1..(Len(s) - 5) :
        TokAt(s, key, j) /\ s[j + 5] \notin {"{", "}"}}}

\* arguments without its i-th entry.
Without(arguments, i) ==
    SubSeq(arguments, 1, i - 1) \o SubSeq(arguments, i + 1, Len(arguments))

\* The extra arguments of format call c whose key a later entry of the
\* table carries too (a later extra argument, the level entry or the
\* palette), being the first extra argument of that key, and whose value
\* holds no token of a key a later entry carries.
C6_Cases(c) ==
    {i \in 1..Len(c.arguments) :
        /\ c.arguments[i][1] \notin {"message", "timestamp"}
        /\ \A j \in 1..(i - 1) : c.arguments[j][1] # c.arguments[i][1]
        /\ \/ c.arguments[i][1] \in {"level"} \cup PaletteKeys
           \/ \E j \in (i + 1)..Len(c.arguments) :
                 c.arguments[j][1] = c.arguments[i][1]
        /\ \A k \in TokenKeys(c.arguments[i][2]) :
              /\ k \notin {"level"} \cup PaletteKeys
              /\ \A j \in (i + 1)..Len(c.arguments) : c.arguments[j][1] # k}

\* C6 as stated: an extra argument whose key is level or a palette key does
\* not change the output, the reserved entry appended after it being the one
\* rendered; and of two extra arguments with the same key, the value of the
\* later one is rendered where the template holds the placeholder.
C6_ReservedEntryWins ==
    \A n \in FormatCalls :
        \A i \in 1..Len(calls[n].arguments) :
            /\ calls[n].arguments[i][1] \in {"level"} \cup PaletteKeys =>
                  calls[n].result.text
                      = Format(formatter, calls[n].output, calls[n].level,
                               calls[n].message, Without(calls[n].arguments, i),
                               Instants[calls[n].t]).text
            /\ \A j \in 1..(i - 1) :
                  (/\ calls[n].arguments[j][1] = calls[n].arguments[i][1]
                   /\ calls[n].arguments[i][1] \notin ReservedKeys) =>
                      \A l \in LeftOf(Template(formatter, calls[n].output),
                                      calls[n].arguments[i][1]) :
                          Contains(calls[n].result.text,
                                   <<l>> \o calls[n].arguments[i][2])

\* C6 amended: when the substitution table holds two entries with the same
\* key, the earlier entry wins: where the template holds the placeholder of
\* that key next to literal text, the output holds the value of the earlier
\* entry next to that text.  In particular an extra argument whose key is
\* level or a palette key comes before the reserved entry and its value is
\* the one rendered.
C6_EarlierEntryWins ==
    \A n \in FormatCalls :
        LET c == calls[n]
            T == Template(formatter, c.output)
            out == c.result.text
        IN  \A i \in C6_Cases(c) :
                /\ \A l \in LeftOf(T, c.arguments[i][1]) :
                      Contains(out, <<l>> \o c.arguments[i][2])
                /\ \A r \in RightOf(T, c.arguments[i][1]) :
                      Contains(out, c.arguments[i][2] \o <<r>>)

\* An ERROR rendered for stdout with the default templates and the extra
\* arguments ("level", "spoof"), ("end", "plain") shows "] [spoof] " and
\* "plain] [", not the red ERROR label nor the reset code.
C6_Witness ==
    /\ calls # <<>>
    /\ Last.op = "format"
    /\ ~Last.result.panic
    /\ formatter = Formatter_default
    /\ Last.output = STDOUT
    /\ Last.level = "ERROR"
    /\ Last.arguments = << <<"level", <<"spoof">> >>, <<"end", <<"plain">> >> >>
    /\ C6_Cases(Last) = {1, 2}
    /\ Contains(Last.result.text, <<"] [", "spoof", "] ">>)
    /\ Contains(Last.result.text, <<"plain", "] [">>)
    /\ "ERROR" \notin Atoms(Last.result.text)

----------------------------------------------------------------------------
(* C7 *)

\* The value of the first entry of key in arguments.
FirstValue(arguments, key) ==
    arguments[CHOOSE i \in 1..Len(arguments) :
                 /\ arguments[i][1] = key
                 /\ \A j \in 1..(i - 1) : arguments[j][1] # key][2]

\* The logger calls whose extra arguments hold an entry of key path.
C7_Cases == {n \in LogCalls : "path" \in ArgKeys(calls[n].arguments)}

\* C7 as stated: when the extra arguments of a logger call hold an entry of
\* key path, every write of the call shows the real call-site path where the
\* template holds {{path}}.
C7_RealPathRendered ==
    \A n \in C7_Cases :
        \A i \in 1..Len(calls[n].writes) :
            \A l \in LeftOf(Template(formatter, calls[n].writes[i].output), "path") :
                Contains(calls[n].writes[i].text, <<l, calls[n].path>>)

\* C7 amended: in Logger::log, if the caller's extra arguments hold an entry
\* of key path, the {{path}} placeholder of the template is rendered with the
\* caller-supplied value, for every sink, and the real call-site path passed
\* as the path parameter is not rendered; without such an entry the real
\* call-site path is rendered.
C7_CallerPathRendered ==
    \A n \in LogCalls :
        \A i \in 1..Len(calls[n].writes) :
            \A l \in LeftOf(Template(formatter, calls[n].writes[i].output), "path") :
                IF n \in C7_Cases
                THEN /\ Contains(calls[n].writes[i].text,
                                 <<l>> \o FirstValue(calls[n].arguments, "path"))
                     /\ calls[n].path \notin Atoms(calls[n].writes[i].text)
                ELSE Contains(calls[n].writes[i].text, <<l, calls[n].path>>)

\* logger.log("Some message", DEBUG, "lib.rs", [("path", "spoof")]) on a
\* logger with a console sink and a file sink: both writes show
\* "] spoof: Some message" and neither shows lib.rs.
C7_Witness ==
    /\ calls # <<>>
    /\ Len(calls) \in C7_Cases
    /\ Last.path = "lib.rs"
    /\ Last.arguments = << <<"path", <<"spoof">> >> >>
    /\ writable_list = <<STDOUT, FILE("out.log")>>
    /\ Len(Last.writes) = 2
    /\ \A i \in 1..2 :
          /\ Contains(Last.writes[i].text, <<"] ", "spoof", ": ", "Some message">>)
          /\ "lib.rs" \notin Atoms(Last.writes[i].text)

----------------------------------------------------------------------------
(* C8 *)

\* The completed format calls whose extra arguments hold a brace-free entry
\* of key message that is the first of that key.
C8_Cases ==
    {n \in FormatCalls :
        /\ "message" \in ArgKeys(calls[n].arguments)
        /\ Plain(FirstValue(calls[n].arguments, "message"))}

\* C8 as stated: with an extra argument of key message, for every message
\* text, the value of the extra argument appears nowhere in the output.
C8_ExtraMessageNeverAppears ==
    \A n \in C8_Cases :
        ~Contains(calls[n].result.text,
                  FirstValue(calls[n].arguments, "message"))

\* C8 amended: if the caller passes an extra argument with key message, the
\* {{message}} placeholder of the template is rendered with the real
\* message and not with the extra argument's value; the value of the extra
\* argument is inserted only where a text inserted before it itself holds
\* {{message}}: always when the real message holds it, and nowhere when
\* neither the real message, nor the timestamp text, nor the value of an
\* extra argument holds it.
C8_RealMessageFillsTemplate ==
    \A n \in C8_Cases :
        LET c == calls[n]
            v == FirstValue(c.arguments, "message")
            out == c.result.text
        IN  /\ TokenKeys(c.message) \subseteq {"message"} =>
                  \A l \in LeftOf(Template(formatter, c.output), "message") :
                      Contains(out, <<l>> \o Replace(c.message, "message", v))
            /\ HasTok(c.message, "message") => Contains(out, v)
            /\ (/\ ~HasTok(c.message, "message")
                /\ ~HasTok(TimestampText(c), "message")
                /\ \A i \in 1..Len(c.arguments) :
                      ~HasTok(c.arguments[i][2], "message"))
                  => ~Contains(out, v)

\* "Test" with ("message", "fake") rendered by the default formatter shows
\* ": Test" and no fake.
C8_Witness ==
    /\ calls # <<>>
    /\ Len(calls) \in C8_Cases
    /\ formatter = Formatter_default
    /\ Last.message = <<"Test">>
    /\ Last.arguments = << <<"message", <<"fake">> >> >>
    /\ Contains(Last.result.text, <<": ", "Test">>)
    /\ ~Contains(Last.result.text, <<"fake">>)

----------------------------------------------------------------------------
(* C9 *)

\* The keys of the entries that Formatter::format applies after the message
\* entry in call c.
C9_LaterKeys(c) ==
    {"timestamp", "level"} \cup PaletteKeys \cup ArgKeys(c.arguments)

\* No extra argument of call c has a value that holds the token of key.
C9_NotReintroduced(c, key) ==
    \A i \in 1..Len(c.arguments) : ~HasTok(c.arguments[i][2], key)

\* C9 as stated: a message that holds {{token}}-shaped text whose key is in
\* the substitution table appears verbatim in the output.
C9_MessageTokensVerbatim ==
    \A n \in FormatCalls :
        TokenKeys(calls[n].message)
                \cap ({"message"} \cup C9_LaterKeys(calls[n])) # {}
            => Contains(calls[n].result.text, calls[n].message)

\* C9 amended: a value is not rescanned by the replacement that inserts it,
\* but every entry applied after it scans the whole text, inserted values
\* included: {{token}}-shaped text of the message whose key belongs to a
\* later entry (timestamp, an extra argument, level, the palette) is
\* replaced by that entry's value and does not appear in the output, while
\* a message none of whose tokens belongs to a later entry appears verbatim
\* (so {{message}} itself, with no extra argument of key message, and
\* unknown keys).  Likewise the value of an extra argument is expanded by
\* the extra arguments passed after it.
C9_LaterEntriesExpandValues ==
    \A n \in FormatCalls :
        LET c == calls[n]
            out == c.result.text
        IN  /\ \A k \in TokenKeys(c.message) \cap C9_LaterKeys(c) :
                  C9_NotReintroduced(c, k) => ~HasTok(out, k)
            /\ (/\ TokenKeys(c.message) = {"timestamp"}
                /\ TokenKeys(TimestampText(c)) \cap C9_LaterKeys(c) = {}) =>
                  Contains(out,
                           Replace(c.message, "timestamp", TimestampText(c)))
            /\ (TokenKeys(c.message) = {"level"} /\ c.arguments = <<>>) =>
                  Contains(out,
                           Replace(c.message, "level",
                                   C3_Rendered(c.output, c.level)))
            /\ TokenKeys(c.message) \cap C9_LaterKeys(c) = {} =>
                  Contains(out, c.message)
            /\ \A i \in 1..Len(c.arguments) : \A j \in (i + 1)..Len(c.arguments) :
                  (/\ TokenKeys(c.message) = {c.arguments[i][1]}
                   /\ TokenKeys(c.arguments[i][2]) = {c.arguments[j][1]}
                   /\ c.arguments[i][1] # c.arguments[j][1]
                   /\ \A m \in 1..(j - 1) : c.arguments[m][1] # c.arguments[j][1]
                   /\ \A m \in 1..(i - 1) : c.arguments[m][1] # c.arguments[i][1]
                   /\ {c.arguments[i][1], c.arguments[j][1]}
                         \cap ReservedKeys = {}
                   /\ Plain(c.arguments[j][2]))
                  => Contains(out,
                              Replace(Replace(c.message, c.arguments[i][1],
                                              c.arguments[i][2]),
                                      c.arguments[j][1], c.arguments[j][2]))

\* The message "{{timestamp}}!" rendered by the default formatter for a
\* file shows ": 2023-12-31 23:59:59!" and no {{timestamp}}.
C9_Witness ==
    /\ calls # <<>>
    /\ Last.op = "format"
    /\ ~Last.result.panic
    /\ formatter = Formatter_default
    /\ Last.output = FILE("out.log")
    /\ Last.message = Tok("timestamp") \o <<"!">>
    /\ Last.arguments = <<>>
    /\ Last.t = 1
    /\ Contains(Last.result.text,
                <<": ", "2023", "-", "12", "-", "31", " ",
                  "23", ":", "59", ":", "59", "!">>)
    /\ ~HasTok(Last.result.text, "timestamp")

\* The message "{{{more}}}" with ("more", "{{details}}"), ("details",
\* "stuff") shows "{stuff}": the value inserted for more was expanded.
C9_WitnessValue ==
    /\ calls # <<>>
    /\ Last.op = "format"
    /\ ~Last.result.panic
    /\ Last.message = <<"{">> \o Tok("more") \o <<"}">>
    /\ Last.arguments = << <<"more", Tok("details")>>, <<"details", <<"stuff">> >> >>
    /\ Contains(Last.result.text, <<"{", "stuff", "}">>)

----------------------------------------------------------------------------
(* C10 *)

\* C10: Formatter::format never fails: every call returns a string, for
\* every sink kind, level, message, extra-argument list and formatter, a
\* formatter whose timestamp pattern is no valid strftime pattern included.
C10_FormatNeverFails ==
    /\ status # "panicked"
    /\ \A n \in 1..Len(calls) :
          calls[n].op = "format" => ~calls[n].result.panic

----------------------------------------------------------------------------
(* C11 *)

\* The i-th sink of the logger is a file that cannot be opened, or cannot be
\* written.
C11_Fails(i) ==
    /\ writable_list[i].kind = "FILE"
    /\ fstate[writable_list[i].path] # "ok"

\* Logger call c reached its i-th sink: every sink before it was attempted.
C11_Reached(c, i) == Len(c.writes) >= i - 1

\* Logger call c attempted the write of its j-th sink.
C11_Attempted(c, j) ==
    /\ Len(c.writes) >= j
    /\ c.writes[j].output = writable_list[j]

\* C11: in Logger::log with the sinks s1..sn, a failure on sink s_i (the
\* file cannot be opened, or the write fails) does not prevent the remaining
\* sinks: every sink s_j with j > i still receives its write attempt during
\* the same call.
C11_FailureDoesNotStopLaterSinks ==
    ValidPattern(formatter.timestamp_format) =>
        \A n \in LogCalls :
            \A i \in 1..Len(writable_list) :
                (C11_Fails(i) /\ C11_Reached(calls[n], i)) =>
                    \A j \in (i + 1)..Len(writable_list) :
                        C11_Attempted(calls[n], j)

----------------------------------------------------------------------------
(* C12 *)

\* The i-th sink of the logger is a file that cannot be opened.
C12_CannotOpen(i) ==
    /\ writable_list[i].kind = "FILE"
    /\ fstate[writable_list[i].path] = "noopen"

\* The "File error" diagnostic for the file at path has been raised.
C12_FileErrorRaised(path) ==
    \E r \in 1..Len(raised) :
        /\ raised[r].name = "File error"
        /\ raised[r].description = "The file could not be opened"
        /\ raised[r].exit_code = 1
        /\ raised[r].details.path = path

\* C12: when the path of a File sink cannot be opened, Logger::log raises
\* the "File error" / "The file could not be opened" diagnostic (code 1)
\* carrying the path, and no other failure, a panic or the "Writing error"
\* diagnostic, occurs for that sink before it.
C12_FileOpenFailureRaised ==
    ValidPattern(formatter.timestamp_format) =>
        \A n \in LogCalls :
            \A i \in 1..Len(writable_list) :
                (C12_CannotOpen(i) /\ C11_Reached(calls[n], i)) =>
                    /\ C12_FileErrorRaised(writable_list[i].path)
                    /\ calls[n].outcome # "panicked"
                    /\ \A r \in 1..Len(raised) : raised[r].name # "Writing error"

----------------------------------------------------------------------------
(* C13 *)

\* The substitution table of format call c with the timestamp entry applied
\* before the message entry, every other entry after them in the order of
\* Formatter::format.
C13_TimestampFirst(c) ==
    << <<"timestamp", Timestamp(formatter.timestamp_format, Instants[c.t]).text>>,
       <<"message", c.message>> >>
        \o c.arguments
        \o (IF Console(c.output)
            THEN <<colored_level_string(c.level)>>
            ELSE <<level_string(c.level)>>)
        \o Colors

\* What format call c returns when the timestamp entry is applied first.
C13_Swapped(c) ==
    Substitute(Template(formatter, c.output), C13_TimestampFirst(c))

\* The number of tokens of key in s.
TokCount(s, key) == Cardinality({i \in 1..(Len(s) - 4) : TokAt(s, key, i)})

\* Neither entry brings the other's placeholder into the text: filling
\* {{message}} leaves as many {{timestamp}} as the template holds, and
\* filling {{timestamp}} as many {{message}}.
C13_Independent(c) ==
    LET T == Template(formatter, c.output) IN
    /\ TokCount(Replace(T, "message", c.message), "timestamp")
          = TokCount(T, "timestamp")
    /\ TokCount(Replace(T, "timestamp",
                        Timestamp(formatter.timestamp_format,
                                  Instants[c.t]).text), "message")
          = TokCount(T, "message")

\* C13 as stated: for every template, message and timestamp, applying the
\* message entry before the timestamp entry yields the same final string as
\* applying the timestamp entry before the message entry.
C13_OrderIndependent ==
    \A n \in FormatCalls : calls[n].result.text = C13_Swapped(calls[n])

\* C13 amended: applying the message entry before the timestamp entry
\* yields the same final string as applying them in the other order,
\* provided neither entry brings the other's placeholder into the text
\* (the inserted message produces no {{timestamp}}, the inserted timestamp
\* text no {{message}}); when one does, only the entry applied second
\* expands it and the two orders differ.
C13_OrderIndependentOnDisjointValues ==
    \A n \in FormatCalls :
        C13_Independent(calls[n]) =>
            calls[n].result.text = C13_Swapped(calls[n])

\* The message "lvl {{level}}" with ("details", "stuff") rendered by the
\* default formatter for stderr: both placeholders of the template are
\* filled, and the other order gives the same text.
C13_Witness ==
    /\ calls # <<>>
    /\ Last.op = "format"
    /\ ~Last.result.panic
    /\ formatter = Formatter_default
    /\ Last.output = STDERR
    /\ Last.message = <<"lvl ">> \o Tok("level")
    /\ Last.arguments = << <<"details", <<"stuff">> >> >>
    /\ C13_Independent(Last)
    /\ {"message", "timestamp"} \subseteq TokenKeys(Template(formatter, Last.output))
    /\ TokenKeys(Last.result.text) = {"path"}
    /\ Last.result.text = C13_Swapped(Last)

----------------------------------------------------------------------------
(* C14 *)

\* The place of palette key k in Colors, and the escape sequences.
PaletteIndex(k) == (CHOOSE i \in 1..Len(Colors) : Colors[i][1] = k)

Escapes == {Colors[i][2][1] : i \in 1..Len(Colors)}

\* The text of format call c once the message, the timestamp, the extra
\* arguments and the level entry have been inserted, before the palette.
C14_BeforePalette(c) ==
    Substitute(Template(formatter, c.output),
               << <<"message", c.message>>,
                  <<"timestamp", TimestampText(c)>> >>
                   \o c.arguments
                   \o (IF Console(c.output)
                       THEN <<colored_level_string(c.level)>>
                       ELSE <<level_string(c.level)>>))

====
